---- MODULE Spec2Model ----
(***************************************************************************)
(* Contract ledger and salary-cap engine of the football-gm application.   *)
(*                                                                         *)
(* The state is the committed contracts table (one row per contract, the   *)
(* row id is the index in the sequence) together with the outcome of the   *)
(* last service call.  Every action is one call of a service method run   *)
(* in a session of its own (connection.py get_db): what the method changes *)
(* on its objects reaches the table only when the method calls             *)
(* db.commit(); a call that returns an error, or that raises, leaves the   *)
(* table as it was because the session is closed without a commit.         *)
(* bonus_granted is history kept next to the ledger: for each contract the *)
(* signing bonus it was created with plus the amounts of the restructures  *)
(* committed on it.  sessions holds the objects of requests that have read *)
(* the ledger and not yet committed.                                       *)
(*                                                                         *)
(* Spec runs the service calls one after the other.  ChanceSpec applies    *)
(* calculate_acceptance_chance to a grid of market values and offers.      *)
(* ConcurrentSpec splits extend, restructure and release into the read and *)
(* the commit of two sessions, as the worker threads of the API run them.  *)
(*                                                                         *)
(* Money is in dollars.  The salaries offered in the model are multiples   *)
(* of 20 dollars, so the 5%, 10%, 15% and 20% escalations that the code    *)
(* computes in floating point are whole numbers.                           *)
(***************************************************************************)
EXTENDS Integers, Sequences, FiniteSets, TLC

VARIABLES contracts, result, restructures, bonus_granted, sessions

vars == <<contracts, result, restructures, bonus_granted, sessions>>

(* ---------------------------------------------------------------- bounds *)

MaxContracts == 2

MaxRestructures == 2

(* ------------------------------------------------------ league constants *)

current_year == 2024

base_cap == 255400000

base_franchise_tag == 20000000

(* ----------------------------------------------------------- input sets *)

\* Rows of the players table: two known players; id 3 is not in the table.
KnownPlayers == {1, 2}

PlayerIds == {1, 2, 3}

TeamIds == {1, 2}

PlayerPosition(p) == IF p = 1 THEN "QB" ELSE "K"

\* The columns of a players row that the negotiation reads: a quarterback
\* in his prime and an ageing kicker, both on the roster of team 1.
PlayerRow(p) ==
    IF p = 1
    THEN [id |-> p, position |-> PlayerPosition(p), overall_rating |-> 85,
          age |-> 27, years_pro |-> 5, work_ethic |-> 70, team_id |-> 1]
    ELSE [id |-> p, position |-> PlayerPosition(p), overall_rating |-> 60,
          age |-> 33, years_pro |-> 10, work_ethic |-> 40, team_id |-> 1]

\* Query parameters of the endpoints are plain integers: nothing restricts
\* years to 1..5 or the restructure amount to positive values.
\* The calls made at the extend endpoint, <<player_id, team_id, base_salary,
\* years, signing_bonus>>: the two scenarios of the specification (a
\* restructured 3-year contract without bonus, a 3-year contract with a
\* bonus), a one-year offer from another team, a contract without salary,
\* years of 0 and of -1, and an unknown player.
Requests ==
    {<<1, 1, 5000000, 3, 0>>,
     <<1, 2, 5000000, 1, 3000000>>,
     <<2, 1, 5000000, 3, 3000000>>,
     <<2, 1, 0, 3, 3000000>>,
     <<2, 2, 5000000, 0, 3000000>>,
     <<2, 2, 5000000, -1, 0>>,
     <<3, 1, 5000000, 3, 0>>}

RestructureAmounts == {-1000000, 2000000, 5000000}

\* Calls of create_rookie_contract, <<player_id, team_id, draft_round,
\* draft_pick, years>>: a first-round pick on the default four years, an
\* undrafted player without a term, a round of 0 and a term of -1.
RookieCalls ==
    {<<1, 1, 1, 1, 4>>,
     <<2, 2, 9, 250, 0>>,
     <<1, 1, 0, 1, 4>>,
     <<2, 1, 3, 70, -1>>}

\* Calls of create_veteran_contract, <<player_id, team_id, base_salary,
\* years, signing_bonus, roster_bonus>>.
VeteranCalls ==
    {<<1, 1, 5000000, 3, 3000000, 0>>,
     <<1, 1, 0, 3, 3000000, 0>>,
     <<2, 2, 5000000, 5, 3000000, 1000000>>,
     <<2, 2, 5000000, 0, 3000000, 0>>}

SummaryYears == {2024, 2025, 2029}

\* Arguments of calculate_acceptance_chance called on its own: work ethic
\* over its range 0..100, market values from 0 to that of the quarterback,
\* offers from a negative one to one above every market value.
WorkEthics == {0, 40, 50, 70, 100}

MarketValues == {0, 1, 150000, 5400000, 43200000, 140250000}

OfferedSalaries == {-1000000, 0, 1, 100000, 5000000, 43200000, 200000000}

(* -------------------------------------------------------------- helpers *)

Zero5 == <<0, 0, 0, 0, 0>>

Min(a, b) == IF a < b THEN a ELSE b

Max(a, b) == IF a > b THEN a ELSE b

\* Python's a // b for b # 0 (rounds towards minus infinity).
FloorDiv(a, b) == IF b > 0 THEN a \div b ELSE (0 - a) \div (0 - b)

\* The indices i (from 1) that enumerate(salaries[:years], 1) visits.
SalarySlice(years) ==
    IF years >= 0 THEN 1..Min(years, 5) ELSE 1..Max(5 + years, 0)

RECURSIVE SumOver(_, _)
SumOver(f, S) ==
    IF S = {} THEN 0
    ELSE LET x == CHOOSE y \in S : TRUE IN f[x] + SumOver(f, S \ {x})

ContractIds == 1..Len(contracts)

\* get_player_contract: the first active row of the player, 0 for None.
get_player_contract(cs, p) ==
    LET act == {i \in 1..Len(cs) : cs[i].player_id = p /\ cs[i].is_active}
    IN IF act = {} THEN 0 ELSE CHOOSE i \in act : \A j \in act : i <= j

\* No contract object.
NoContract ==
    [player_id |-> 0, team_id |-> 0, total_value |-> 0, guaranteed_money |-> 0,
     years |-> 0, salary |-> Zero5, cap_hit |-> Zero5,
     signing_bonus |-> 0, roster_bonus |-> 0,
     contract_type |-> "", is_active |-> FALSE, dead_money |-> Zero5]

\* The outcome of a call; every field a call does not set is 0 / "".
NoResult ==
    [op |-> "none", outcome |-> "none", error |-> "",
     cid |-> 0, player |-> 0, team |-> 0, year |-> 0, amount |-> 0,
     post_june_1 |-> FALSE,
     cap_savings |-> 0, new_cap_hit |-> 0,
     dead_money_current |-> 0, dead_money_next |-> 0,
     total_value |-> 0, cap_hit |-> 0,
     cap_used |-> 0, dead_money |-> 0, cap_space |-> 0,
     market_value |-> 0, acceptance_chance |-> 0, chance |-> 0,
     args |-> << >>, contract |-> NoContract]

ErrorResult(op, err) == [NoResult EXCEPT !.op = op, !.outcome = "error", !.error = err]

\* An exception that leaves the service method (the endpoint answers 500).
FaultResult(op, exc) == [NoResult EXCEPT !.op = op, !.outcome = "fault", !.error = exc]

(* ------------------------------------------------------------ CapEngine *)

\* Column(Integer, default=0) is applied by the INSERT: on an object that
\* Contract(...) has just built, a column the constructor call did not name
\* reads as None until the row is flushed.  A transient object is the row
\* together with the set of columns still unset; a loaded row has none.
SalaryColumn(i) ==
    CASE i = 1 -> "year_1_salary" [] i = 2 -> "year_2_salary"
      [] i = 3 -> "year_3_salary" [] i = 4 -> "year_4_salary"
      [] OTHER -> "year_5_salary"

signing_bonus_proration(c) ==
    IF c.years > 0 THEN FloorDiv(c.signing_bonus, c.years) ELSE 0

\* The empty dictionary.
NoCapHits == [i \in {} |-> 0]

\* Variant of calculate_contract_cap_hits: the year's amount is added to the
\* cap hit the contract already carries.
calculate_contract_cap_hitsAdding(c, unset) ==
    LET counted == {i \in SalarySlice(c.years) : c.salary[i] > 0}
    IN IF ~c.is_active THEN [fault |-> FALSE, c |-> c, cap_hits |-> NoCapHits]
       ELSE [fault |-> FALSE,
             c |-> [c EXCEPT !.cap_hit =
                      [i \in 1..5 |->
                         IF i \in counted
                         THEN c.cap_hit[i] + c.salary[i] + signing_bonus_proration(c)
                         ELSE c.cap_hit[i]]],
             cap_hits |-> [i \in counted |->
                             c.cap_hit[i] + c.salary[i] + signing_bonus_proration(c)]]

\* calculate_contract_cap_hits on the object c whose columns in unset are
\* None.  None // years and None > 0 raise TypeError.  cap_hits is the
\* dictionary the method returns, keyed by the year.
calculate_contract_cap_hits(c, unset) ==
    LET counted == {i \in SalarySlice(c.years) : c.salary[i] > 0}
    IN IF ~c.is_active THEN [fault |-> FALSE, c |-> c, cap_hits |-> NoCapHits]
       ELSE IF c.years > 0 /\ "signing_bonus" \in unset
       THEN [fault |-> TRUE, c |-> c, cap_hits |-> NoCapHits]
       ELSE IF \E i \in SalarySlice(c.years) : SalaryColumn(i) \in unset
       THEN [fault |-> TRUE, c |-> c, cap_hits |-> NoCapHits]
       ELSE [fault |-> FALSE,
             c |-> [c EXCEPT !.cap_hit =
                      [i \in 1..5 |->
                         IF i \in counted
                         THEN c.salary[i] + signing_bonus_proration(c)
                         ELSE c.cap_hit[i]]],
             cap_hits |-> [i \in counted |->
                             c.salary[i] + signing_bonus_proration(c)]]

\* getattr(contract, f"year_{k}_cap_hit", 0) and the like: 0 when the
\* class has no such attribute.
YearField(f, k) == IF k \in 1..5 THEN f[k] ELSE 0

calculate_team_dead_money(cs, team_id, year) ==
    LET k == year - current_year + 1
        rows == {i \in 1..Len(cs) : cs[i].team_id = team_id /\ ~cs[i].is_active
                                    /\ YearField(cs[i].dead_money, k) > 0}
    IN SumOver([i \in rows |-> YearField(cs[i].dead_money, k)], rows)

\* calculate_team_salary_cap, lines 84-85: the cap hits are derived on the
\* loaded object when year_1_cap_hit is falsy.
DerivedOnRead(c) ==
    IF c.cap_hit[1] = 0 THEN calculate_contract_cap_hits(c, {}).c ELSE c

\* calculate_team_salary_cap, lines 71-85: the session's contract objects of
\* the team's active rows as the loop leaves them.  The derived fields are
\* written into the objects and stay pending in the session.
SummaryObjects(cs, team_id) ==
    LET act == {i \in 1..Len(cs) : cs[i].team_id = team_id /\ cs[i].is_active}
    IN [i \in act |-> DerivedOnRead(cs[i])]

\* calculate_team_salary_cap; the method does not commit.
calculate_team_salary_cap(cs, team_id, year) ==
    LET k == year - current_year + 1
        obj == SummaryObjects(cs, team_id)
        act == DOMAIN obj
        counted == {i \in act : YearField(obj[i].cap_hit, k) > 0}
        total_cap_used == SumOver([i \in counted |-> YearField(obj[i].cap_hit, k)], counted)
        total_dead_money == calculate_team_dead_money(cs, team_id, year)
    IN [NoResult EXCEPT !.op = "teamCapSummary", !.outcome = "success",
                        !.team = team_id, !.year = year,
                        !.cap_used = total_cap_used,
                        !.dead_money = total_dead_money,
                        !.cap_space = base_cap - total_cap_used - total_dead_money]

\* annual_salary + (annual_salary * pct/100), a float with a whole value
\* for the salaries of the model.
Escalate(annual_salary, pct) == annual_salary + (annual_salary * pct) \div 100

\* create_veteran_contract: the constructor call and the cap-hit derivation.
create_veteran_contract(player_id, team_id, base_salary, years, signing_bonus, roster_bonus) ==
    LET row == [player_id |-> player_id, team_id |-> team_id,
                total_value |-> (base_salary * years) + signing_bonus + roster_bonus,
                guaranteed_money |-> signing_bonus,
                years |-> years,
                salary |-> <<base_salary,
                             Escalate(base_salary, 5),
                             Escalate(base_salary, 10),
                             IF years > 3 THEN Escalate(base_salary, 15) ELSE 0,
                             IF years > 4 THEN Escalate(base_salary, 20) ELSE 0>>,
                cap_hit |-> Zero5,
                signing_bonus |-> signing_bonus, roster_bonus |-> roster_bonus,
                contract_type |-> "veteran", is_active |-> TRUE,
                dead_money |-> Zero5]
    IN calculate_contract_cap_hits(row, {})

\* rookie_scale[draft_round][1], the only entry of the wage scale that is
\* read.
RookieScaleYear1(draft_round) ==
    CASE draft_round = 1 -> 10000000 [] draft_round = 2 -> 8000000
      [] draft_round = 3 -> 6000000  [] draft_round = 4 -> 4000000
      [] draft_round = 5 -> 3000000  [] draft_round = 6 -> 2500000
      [] draft_round = 7 -> 2000000  [] OTHER -> 0

\* The columns Contract(...) in create_rookie_contract does not name and
\* that calculate_contract_cap_hits reads.
RookieUnset == {"signing_bonus"}

\* create_rookie_contract: the constructor call and the cap-hit derivation.
\* A round below 1 is no key of rookie_scale (KeyError).
create_rookie_contract(player_id, team_id, draft_round, draft_pick, years) ==
    LET round == IF draft_round > 7 THEN 7 ELSE draft_round
        base_salary == RookieScaleYear1(round)
        row == [player_id |-> player_id, team_id |-> team_id,
                total_value |-> base_salary * years,
                guaranteed_money |-> base_salary,
                years |-> years,
                salary |-> <<base_salary, base_salary, base_salary, base_salary,
                             IF years > 4 THEN base_salary ELSE 0>>,
                cap_hit |-> Zero5,
                signing_bonus |-> 0, roster_bonus |-> 0,
                contract_type |-> "rookie", is_active |-> TRUE,
                dead_money |-> Zero5]
    IN IF round \notin 1..7
       THEN [fault |-> TRUE, c |-> NoContract, cap_hits |-> NoCapHits]
       ELSE calculate_contract_cap_hits(row, RookieUnset)

\* Variant of SalaryCapRestructure: the bonus grows but the year-1 salary
\* is not reduced.
SalaryCapRestructureKeepsSalary(c, restructure_amount) ==
    LET updated == [c EXCEPT !.signing_bonus = c.signing_bonus + restructure_amount]
        derived == calculate_contract_cap_hits(updated, {}).c
    IN IF ~c.is_active
       THEN [c |-> c, res |-> ErrorResult("restructureContract", "NotActive")]
       ELSE IF c.salary[1] < restructure_amount
       THEN [c |-> c, res |-> ErrorResult("restructureContract", "ExceedsSalary")]
       ELSE IF c.years = 0
       THEN [c |-> derived, res |-> FaultResult("restructureContract", "ZeroDivisionError")]
       ELSE [c |-> derived,
             res |-> [NoResult EXCEPT !.op = "restructureContract",
                                      !.outcome = "success",
                                      !.cap_savings = restructure_amount,
                                      !.new_cap_hit = derived.cap_hit[1]]]

\* Variant of SalaryCapRestructure: the amount is not compared with the
\* year-1 salary.
SalaryCapRestructureNoLimit(c, restructure_amount) ==
    LET updated == [c EXCEPT !.signing_bonus = c.signing_bonus + restructure_amount,
                             !.salary[1] = c.salary[1] - restructure_amount]
        derived == calculate_contract_cap_hits(updated, {}).c
    IN IF ~c.is_active
       THEN [c |-> c, res |-> ErrorResult("restructureContract", "NotActive")]
       ELSE IF c.years = 0
       THEN [c |-> derived, res |-> FaultResult("restructureContract", "ZeroDivisionError")]
       ELSE [c |-> derived,
             res |-> [NoResult EXCEPT !.op = "restructureContract",
                                      !.outcome = "success",
                                      !.cap_savings = restructure_amount,
                                      !.new_cap_hit =
                                         updated.salary[1]
                                         + FloorDiv(updated.signing_bonus, c.years)]]

\* Variant of SalaryCapRestructure: the amount is taken off the year-1 salary
\* and not added to the signing bonus.
SalaryCapRestructureDropsBonus(c, restructure_amount) ==
    LET current_year_salary == c.salary[1]
        new_base_salary == current_year_salary - restructure_amount
        updated == [c EXCEPT !.salary[1] = new_base_salary]
        derived == calculate_contract_cap_hits(updated, {}).c
        old_cap_hit == current_year_salary + FloorDiv(c.signing_bonus, c.years)
        new_cap_hit == new_base_salary + FloorDiv(c.signing_bonus, c.years)
    IN IF ~c.is_active
       THEN [c |-> c, res |-> ErrorResult("restructureContract", "NotActive")]
       ELSE IF current_year_salary < restructure_amount
       THEN [c |-> c, res |-> ErrorResult("restructureContract", "ExceedsSalary")]
       ELSE IF c.years = 0
       THEN [c |-> derived, res |-> FaultResult("restructureContract", "ZeroDivisionError")]
       ELSE [c |-> derived,
             res |-> [NoResult EXCEPT !.op = "restructureContract",
                                      !.outcome = "success",
                                      !.cap_savings = old_cap_hit - new_cap_hit,
                                      !.new_cap_hit = new_cap_hit]]

\* Variant of SalaryCapRestructure: the converted amount is also added to
\* guaranteed_money.
SalaryCapRestructureGuarantees(c, restructure_amount) ==
    LET current_year_salary == c.salary[1]
        new_signing_bonus == c.signing_bonus + restructure_amount
        new_base_salary == current_year_salary - restructure_amount
        updated == [c EXCEPT !.signing_bonus = new_signing_bonus,
                             !.salary[1] = new_base_salary,
                             !.guaranteed_money = @ + restructure_amount]
        derived == calculate_contract_cap_hits(updated, {}).c
        old_cap_hit == current_year_salary + FloorDiv(derived.signing_bonus, c.years)
        new_cap_hit == new_base_salary + FloorDiv(new_signing_bonus, c.years)
    IN IF ~c.is_active
       THEN [c |-> c, res |-> ErrorResult("restructureContract", "NotActive")]
       ELSE IF current_year_salary < restructure_amount
       THEN [c |-> c, res |-> ErrorResult("restructureContract", "ExceedsSalary")]
       ELSE IF c.years = 0
       THEN [c |-> derived, res |-> FaultResult("restructureContract", "ZeroDivisionError")]
       ELSE [c |-> derived,
             res |-> [NoResult EXCEPT !.op = "restructureContract",
                                      !.outcome = "success",
                                      !.cap_savings = old_cap_hit - new_cap_hit,
                                      !.new_cap_hit = new_cap_hit]]

\* SalaryCapService.restructure_contract on a loaded object: the object as
\* the method leaves it, and what the method returns or raises.
SalaryCapRestructure(c, restructure_amount) ==
    LET current_year_salary == c.salary[1]
        new_signing_bonus == c.signing_bonus + restructure_amount
        new_base_salary == current_year_salary - restructure_amount
        updated == [c EXCEPT !.signing_bonus = new_signing_bonus,
                             !.salary[1] = new_base_salary]
        derived == calculate_contract_cap_hits(updated, {}).c
        \* line 233 reads contract.signing_bonus after line 226 assigned it
        old_cap_hit == current_year_salary + FloorDiv(derived.signing_bonus, c.years)
        new_cap_hit == new_base_salary + FloorDiv(new_signing_bonus, c.years)
    IN IF ~c.is_active
       THEN [c |-> c, res |-> ErrorResult("restructureContract", "NotActive")]
       ELSE IF current_year_salary < restructure_amount
       THEN [c |-> c, res |-> ErrorResult("restructureContract", "ExceedsSalary")]
       ELSE IF c.years = 0
       THEN [c |-> derived, res |-> FaultResult("restructureContract", "ZeroDivisionError")]
       ELSE [c |-> derived,
             res |-> [NoResult EXCEPT !.op = "restructureContract",
                                      !.outcome = "success",
                                      !.cap_savings = old_cap_hit - new_cap_hit,
                                      !.new_cap_hit = new_cap_hit]]

\* Variant of ReleaseStamp: the savings are taken from the cap hit that the
\* year-1 salary and the bonus proration give, not from the stored one.
ReleaseStampDerivedSavings(c, deactivate, dead_money_current, dead_money_next) ==
    [c |-> [c EXCEPT !.is_active = IF deactivate THEN FALSE ELSE @,
                     !.dead_money[1] = dead_money_current,
                     !.dead_money[2] = dead_money_next],
     res |-> [NoResult EXCEPT !.op = "releasePlayer",
                              !.outcome = "success",
                              !.cap_savings = c.salary[1] + signing_bonus_proration(c)
                                              - dead_money_current,
                              !.dead_money_current = dead_money_current,
                              !.dead_money_next = dead_money_next]]

\* The stamping part of release_player, shared by the variants below.
ReleaseStamp(c, deactivate, dead_money_current, dead_money_next) ==
    [c |-> [c EXCEPT !.is_active = IF deactivate THEN FALSE ELSE @,
                     !.dead_money[1] = dead_money_current,
                     !.dead_money[2] = dead_money_next],
     res |-> [NoResult EXCEPT !.op = "releasePlayer",
                              !.outcome = "success",
                              !.cap_savings = c.cap_hit[1] - dead_money_current,
                              !.dead_money_current = dead_money_current,
                              !.dead_money_next = dead_money_next]]

\* Variant of SalaryCapRelease: a post-June-1 release charges the prorated
\* share in both years.
SalaryCapReleaseEvenSplit(c, post_june_1) ==
    IF ~c.is_active
    THEN [c |-> c, res |-> ErrorResult("releasePlayer", "NotActive")]
    ELSE IF post_june_1 /\ c.years = 0
    THEN [c |-> c, res |-> FaultResult("releasePlayer", "ZeroDivisionError")]
    ELSE IF post_june_1
    THEN ReleaseStamp(c, TRUE, FloorDiv(c.signing_bonus, c.years),
                      FloorDiv(c.signing_bonus, c.years))
    ELSE ReleaseStamp(c, TRUE, c.signing_bonus, 0)

\* Variant of SalaryCapRelease: the is_active check is missing.
SalaryCapReleaseUnchecked(c, post_june_1) ==
    IF post_june_1 /\ c.years = 0
    THEN [c |-> c, res |-> FaultResult("releasePlayer", "ZeroDivisionError")]
    ELSE IF post_june_1
    THEN ReleaseStamp(c, TRUE, FloorDiv(c.signing_bonus, c.years),
                      c.signing_bonus - FloorDiv(c.signing_bonus, c.years))
    ELSE ReleaseStamp(c, TRUE, c.signing_bonus, 0)

\* Variant of SalaryCapRelease: dead money is stamped, is_active is not
\* cleared.
SalaryCapReleaseStaysActive(c, post_june_1) ==
    IF ~c.is_active
    THEN [c |-> c, res |-> ErrorResult("releasePlayer", "NotActive")]
    ELSE IF post_june_1 /\ c.years = 0
    THEN [c |-> c, res |-> FaultResult("releasePlayer", "ZeroDivisionError")]
    ELSE IF post_june_1
    THEN ReleaseStamp(c, FALSE, FloorDiv(c.signing_bonus, c.years),
                      c.signing_bonus - FloorDiv(c.signing_bonus, c.years))
    ELSE ReleaseStamp(c, FALSE, c.signing_bonus, 0)

\* SalaryCapService.release_player on a loaded object.
SalaryCapRelease(c, post_june_1) ==
    LET remaining_signing_bonus == c.signing_bonus
        years_remaining == c.years
        dead_money_current == IF post_june_1
                              THEN FloorDiv(remaining_signing_bonus, years_remaining)
                              ELSE remaining_signing_bonus
        dead_money_next == IF post_june_1
                           THEN remaining_signing_bonus - dead_money_current
                           ELSE 0
    IN IF ~c.is_active
       THEN [c |-> c, res |-> ErrorResult("releasePlayer", "NotActive")]
       ELSE IF post_june_1 /\ years_remaining = 0
       THEN [c |-> c, res |-> FaultResult("releasePlayer", "ZeroDivisionError")]
       ELSE ReleaseStamp(c, TRUE, dead_money_current, dead_money_next)

(* ---------------------------------------------------- ContractLifecycle *)

\* db.add(new_contract); db.commit(): the INSERT gives the row the next id
\* and fills the columns still unset with their default 0.
AddAndCommit(cs, new_contract) == Append(cs, new_contract)

\* Variant of ExtensionCommit: the old contract is left active.
ExtensionCommitKeepsOld(cs, existing, new_contract) ==
    AddAndCommit(cs, new_contract)

\* negotiate_contract_extension, lines 56-72, once the offer is accepted:
\* the ledger that the commit leaves.
ExtensionCommit(cs, existing, new_contract) ==
    AddAndCommit(IF existing # 0
                 THEN [cs EXCEPT ![existing].is_active = FALSE]
                 ELSE cs,
                 new_contract)

\* calculate_market_value: int(overall_rating * 1000000 * position
\* multiplier * age multiplier * experience multiplier), the multipliers in
\* tenths.
MarketPositionMultiplier10(position) ==
    CASE position = "QB" -> 15 [] position = "DE" -> 13
      [] position = "WR" -> 12 [] position = "CB" -> 11
      [] position = "LT" -> 12 [] position = "TE" -> 10
      [] position = "RB" -> 9  [] position = "ILB" -> 9
      [] OTHER -> 10

AgeMultiplier10(age) ==
    IF age <= 25 THEN 13
    ELSE IF age <= 28 THEN 11
    ELSE IF age <= 31 THEN 10
    ELSE IF age <= 34 THEN 8
    ELSE 6

ExperienceMultiplier10(years_pro) ==
    IF years_pro <= 3 THEN 12 ELSE IF years_pro <= 6 THEN 10 ELSE 9

calculate_market_value(player) ==
    (player.overall_rating * 1000
        * MarketPositionMultiplier10(player.position)
        * AgeMultiplier10(player.age)
        * ExperienceMultiplier10(player.years_pro))

\* offered_salary / market_value to four decimals, for market_value > 0 and
\* offered_salary < market_value; amounts of 200,000 and more are taken in
\* thousands to stay within 32 bits.  A ratio below 0 is reported as 0, which
\* max(0.1, salary_ratio) treats alike.
SalaryRatio4(offered_salary, market_value) ==
    IF offered_salary <= 0 THEN 0
    ELSE IF market_value < 200000
    THEN (offered_salary * 10000) \div market_value
    ELSE ((offered_salary \div 1000) * 10000) \div (market_value \div 1000)

\* The product of the factors and the clamp of calculate_acceptance_chance,
\* in millionths.
ClampedChance(salary_factor4, loyalty_factor10, work_ethic) ==
    Min(950000,
        Max(50000, (salary_factor4 * loyalty_factor10 * (200 + work_ethic)) \div 50))

\* Variant of calculate_acceptance_chance: an offer equal to the market
\* value is compared as a ratio.
calculate_acceptance_chanceStrict(cs, player, market_value, offered_salary) ==
    LET existing_contract == get_player_contract(cs, player.id)
        loyalty_factor10 ==
            IF existing_contract # 0 /\ cs[existing_contract].team_id = player.team_id
            THEN 12 ELSE 10
    IN IF offered_salary > market_value
       THEN [fault |-> FALSE,
             chance |-> ClampedChance(10000, loyalty_factor10, player.work_ethic)]
       ELSE IF market_value = 0
       THEN [fault |-> TRUE, chance |-> 0]
       ELSE [fault |-> FALSE,
             chance |-> ClampedChance(
                           Max(1000, SalaryRatio4(offered_salary, market_value)),
                           loyalty_factor10, player.work_ethic)]

\* calculate_acceptance_chance, in millionths.  The salary factor is kept
\* to four decimals and the factors are multiplied as integers (loyalty in
\* tenths, work ethic as (200 + work_ethic) / 250 = 0.8 + work_ethic/100 *
\* 0.4); for the players and offers of the model the rounded percentage
\* below is the one the floating-point code returns.  offered_salary /
\* market_value raises ZeroDivisionError for a market value of 0, which the
\* comparison of line 123 lets through for a negative offer only.
calculate_acceptance_chance(cs, player, market_value, offered_salary) ==
    LET existing_contract == get_player_contract(cs, player.id)
        loyalty_factor10 ==
            IF existing_contract # 0 /\ cs[existing_contract].team_id = player.team_id
            THEN 12 ELSE 10
    IN IF offered_salary >= market_value
       THEN [fault |-> FALSE,
             chance |-> ClampedChance(10000, loyalty_factor10, player.work_ethic)]
       ELSE IF market_value = 0
       THEN [fault |-> TRUE, chance |-> 0]
       ELSE [fault |-> FALSE,
             chance |-> ClampedChance(
                           Max(1000, SalaryRatio4(offered_salary, market_value)),
                           loyalty_factor10, player.work_ethic)]

\* round(acceptance_chance * 100, 1), in tenths of a percent.
AcceptancePercent10(acceptance_chance) == (acceptance_chance + 500) \div 1000

\* Variant of ExtensionRefusal: a contract with another team is no obstacle.
ExtensionRefusalNoTeamCheck(cs, player_id, team_id) ==
    IF player_id \notin KnownPlayers THEN "NotFound" ELSE ""

\* negotiate_contract_extension, lines 32-39: the error the call returns
\* before the offer is valued, "" when it goes on.
ExtensionRefusal(cs, player_id, team_id) ==
    LET existing_contract == get_player_contract(cs, player_id)
    IN IF player_id \notin KnownPlayers THEN "NotFound"
       ELSE IF existing_contract # 0 /\ cs[existing_contract].team_id # team_id
       THEN "ConflictingContract"
       ELSE ""

\* Variant of RejectedOffer: the message alone is returned.
RejectedOfferBare(tag, market_value, acceptance_chance) ==
    [tag EXCEPT !.outcome = "rejected"]

\* negotiate_contract_extension, lines 48-54: what a rejected offer returns.
RejectedOffer(tag, market_value, acceptance_chance) ==
    [tag EXCEPT !.outcome = "rejected",
                !.market_value = market_value,
                !.acceptance_chance = AcceptancePercent10(acceptance_chance)]

\* Variant of TagRefusal: an active contract is no obstacle.
TagRefusalUnknownOnly(cs, player_id) ==
    IF player_id \notin KnownPlayers THEN "NotFound" ELSE ""

\* franchise_tag_player, lines 176-183: the error the call returns before
\* the tag is priced, "" when it goes on.
TagRefusal(cs, player_id) ==
    IF player_id \notin KnownPlayers THEN "NotFound"
    ELSE IF get_player_contract(cs, player_id) # 0 THEN "AlreadyUnderContract"
    ELSE ""

\* calculate_franchise_tag_amount: int(20000000 * multiplier), the
\* multiplier in tenths.
FranchiseTagMultiplier10(position) ==
    CASE position = "QB" -> 20 [] position = "DE" -> 15
      [] position = "WR" -> 13 [] position = "CB" -> 12
      [] position = "LT" -> 14 [] position = "TE" -> 10
      [] position = "RB" -> 8  [] position = "ILB" -> 9
      [] OTHER -> 10

calculate_franchise_tag_amount(position) ==
    (base_franchise_tag * FranchiseTagMultiplier10(position)) \div 10

\* The columns Contract(...) in franchise_tag_player does not name and
\* that calculate_contract_cap_hits reads.
FranchiseTagUnset ==
    {"signing_bonus", "year_2_salary", "year_3_salary", "year_4_salary",
     "year_5_salary"}

franchise_tag_contract(player_id, team_id) ==
    LET franchise_tag_amount == calculate_franchise_tag_amount(PlayerPosition(player_id))
    IN [player_id |-> player_id, team_id |-> team_id,
        total_value |-> franchise_tag_amount,
        guaranteed_money |-> franchise_tag_amount,
        years |-> 1,
        salary |-> <<franchise_tag_amount, 0, 0, 0, 0>>,
        cap_hit |-> Zero5,
        signing_bonus |-> 0, roster_bonus |-> 0,
        contract_type |-> "franchise_tag", is_active |-> TRUE,
        dead_money |-> Zero5]

\* The requests in flight: every request runs in a database session of its
\* own (get_db).  A session that has loaded and changed its objects and has
\* yet to reach db.commit() holds the row id it loaded (cid), the row as
\* loaded, the object as changed, the row id of the contract it found active
\* (existing) and the outcome it will return.
Sessions == {1, 2}

IdleSession ==
    [pc |-> "idle", op |-> "", existing |-> 0, cid |-> 0, amount |-> 0,
     loaded |-> NoContract, obj |-> NoContract, res |-> NoResult]

(* --------------------------------------------------------------- actions *)

\* A row that init_database loaded from contracts.json: terms and salaries
\* given, cap hits and dead money left to the column default.
SeedContract ==
    [player_id |-> 1, team_id |-> 1,
     total_value |-> 13250000, guaranteed_money |-> 3000000,
     years |-> 2,
     salary |-> <<5000000, 5250000, 0, 0, 0>>,
     cap_hit |-> Zero5,
     signing_bonus |-> 3000000, roster_bonus |-> 0,
     contract_type |-> "veteran", is_active |-> TRUE,
     dead_money |-> Zero5]

Init ==
    /\ contracts \in {<< >>, <<SeedContract>>}
    /\ result = NoResult
    /\ restructures = 0
    /\ bonus_granted = [i \in 1..Len(contracts) |-> contracts[i].signing_bonus]
    /\ sessions = [s \in Sessions |-> IdleSession]

\* ContractService.negotiate_contract_extension.  random.random() is
\* compared with an acceptance chance that is clamped to [0.05, 0.95], so
\* the offer can be accepted and can be rejected.
NegotiateExtension(player_id, team_id, base_salary, years, signing_bonus, accepted) ==
    LET existing == get_player_contract(contracts, player_id)
        made == create_veteran_contract(player_id, team_id, base_salary, years,
                                        signing_bonus, 0)
        tag == [NoResult EXCEPT !.op = "negotiateExtension",
                                !.player = player_id, !.team = team_id]
        refusal == ExtensionRefusal(contracts, player_id, team_id)
        market_value == calculate_market_value(PlayerRow(player_id))
        acceptance == calculate_acceptance_chance(contracts, PlayerRow(player_id),
                                                  market_value, base_salary)
    IN /\ UNCHANGED <<restructures, sessions>>
       /\ IF refusal # ""
          THEN /\ result' = [tag EXCEPT !.outcome = "error", !.error = refusal]
               /\ UNCHANGED <<contracts, bonus_granted>>
          ELSE IF acceptance.fault
          THEN /\ result' = [tag EXCEPT !.outcome = "fault",
                                        !.error = "ZeroDivisionError"]
               /\ UNCHANGED <<contracts, bonus_granted>>
          ELSE IF ~accepted
          THEN /\ result' = RejectedOffer(tag, market_value, acceptance.chance)
               /\ UNCHANGED <<contracts, bonus_granted>>
          ELSE /\ Len(contracts) < MaxContracts
               /\ contracts' = ExtensionCommit(contracts, existing, made.c)
               /\ bonus_granted' = Append(bonus_granted, signing_bonus)
               /\ result' = [tag EXCEPT !.outcome = "success",
                                        !.cid = Len(contracts) + 1,
                                        !.total_value = made.c.total_value,
                                        !.cap_hit = made.c.cap_hit[1]]

\* ContractService.restructure_contract.
RestructureContract(contract_id, restructure_amount) ==
    IF contract_id \notin ContractIds
    THEN /\ result' = [ErrorResult("restructureContract", "NotFound")
                         EXCEPT !.cid = contract_id, !.amount = restructure_amount]
         /\ UNCHANGED <<contracts, restructures, bonus_granted, sessions>>
    ELSE IF ~contracts[contract_id].is_active
    THEN /\ result' = [ErrorResult("restructureContract", "NotActive")
                         EXCEPT !.cid = contract_id, !.amount = restructure_amount]
         /\ UNCHANGED <<contracts, restructures, bonus_granted, sessions>>
    ELSE LET r == SalaryCapRestructure(contracts[contract_id], restructure_amount)
         IN /\ result' = [r.res EXCEPT !.cid = contract_id,
                                       !.amount = restructure_amount]
            /\ IF r.res.outcome = "success"
               THEN /\ restructures < MaxRestructures
                    /\ contracts' = [contracts EXCEPT ![contract_id] = r.c]
                    /\ restructures' = restructures + 1
                    /\ bonus_granted' =
                          [bonus_granted EXCEPT ![contract_id] = @ + restructure_amount]
                    /\ UNCHANGED sessions
               ELSE UNCHANGED <<contracts, restructures, bonus_granted, sessions>>

\* ContractService.release_player.
ReleasePlayer(contract_id, post_june_1) ==
    /\ UNCHANGED <<restructures, bonus_granted, sessions>>
    /\ IF contract_id \notin ContractIds
       THEN /\ result' = [ErrorResult("releasePlayer", "NotFound")
                            EXCEPT !.cid = contract_id, !.post_june_1 = post_june_1]
            /\ UNCHANGED contracts
       ELSE LET r == SalaryCapRelease(contracts[contract_id], post_june_1)
            IN /\ result' = [r.res EXCEPT !.cid = contract_id,
                                          !.post_june_1 = post_june_1]
               /\ IF r.res.outcome = "success"
                  THEN contracts' = [contracts EXCEPT ![contract_id] = r.c]
                  ELSE UNCHANGED contracts

\* ContractService.franchise_tag_player.
FranchiseTag(player_id, team_id) ==
    LET made == calculate_contract_cap_hits(
                    franchise_tag_contract(player_id, team_id), FranchiseTagUnset)
        tag == [NoResult EXCEPT !.op = "franchiseTag",
                                !.player = player_id, !.team = team_id]
        refusal == TagRefusal(contracts, player_id)
    IN /\ UNCHANGED <<restructures, sessions>>
       /\ IF refusal # ""
          THEN /\ result' = [tag EXCEPT !.outcome = "error", !.error = refusal]
               /\ UNCHANGED <<contracts, bonus_granted>>
          ELSE IF made.fault
          THEN /\ result' = [tag EXCEPT !.outcome = "fault", !.error = "TypeError"]
               /\ UNCHANGED <<contracts, bonus_granted>>
          ELSE /\ Len(contracts) < MaxContracts
               /\ contracts' = AddAndCommit(contracts, made.c)
               /\ bonus_granted' = Append(bonus_granted, made.c.signing_bonus)
               /\ result' = [tag EXCEPT !.outcome = "success",
                                        !.total_value = made.c.total_value,
                                        !.cap_hit = made.c.cap_hit[1]]

\* SalaryCapService.create_rookie_contract called on its own: the contract
\* object is returned, nothing is added to the session.
CreateRookieContract(player_id, team_id, draft_round, draft_pick, years) ==
    LET made == create_rookie_contract(player_id, team_id, draft_round,
                                       draft_pick, years)
        tag == [NoResult EXCEPT !.op = "createRookieContract",
                                !.player = player_id, !.team = team_id,
                                !.args = <<draft_round, draft_pick, years>>]
    IN /\ UNCHANGED <<contracts, restructures, bonus_granted, sessions>>
       /\ IF made.fault
          THEN result' = [tag EXCEPT !.outcome = "fault",
                                     !.error = IF draft_round < 1 THEN "KeyError"
                                               ELSE "TypeError"]
          ELSE result' = [tag EXCEPT !.outcome = "success", !.contract = made.c]

\* SalaryCapService.create_veteran_contract called on its own.
CreateVeteranContract(player_id, team_id, base_salary, years, signing_bonus, roster_bonus) ==
    LET made == create_veteran_contract(player_id, team_id, base_salary, years,
                                        signing_bonus, roster_bonus)
        tag == [NoResult EXCEPT !.op = "createVeteranContract",
                                !.player = player_id, !.team = team_id,
                                !.args = <<base_salary, years, signing_bonus,
                                           roster_bonus>>]
    IN /\ UNCHANGED <<contracts, restructures, bonus_granted, sessions>>
       /\ IF made.fault
          THEN result' = [tag EXCEPT !.outcome = "fault", !.error = "TypeError"]
          ELSE result' = [tag EXCEPT !.outcome = "success", !.contract = made.c]

\* SalaryCapService.calculate_team_salary_cap, called by the GET endpoint.
TeamCapSummary(team_id, year) ==
    /\ result' = calculate_team_salary_cap(contracts, team_id, year)
    /\ UNCHANGED <<contracts, restructures, bonus_granted, sessions>>

Next ==
    \/ \E r \in Requests, a \in BOOLEAN :
          NegotiateExtension(r[1], r[2], r[3], r[4], r[5], a)
    \/ \E c \in 1..(Len(contracts) + 1), amt \in RestructureAmounts :
          RestructureContract(c, amt)
    \/ \E c \in 1..(Len(contracts) + 1), post \in BOOLEAN : ReleasePlayer(c, post)
    \/ \E p \in PlayerIds, t \in TeamIds : FranchiseTag(p, t)
    \/ \E t \in TeamIds, y \in SummaryYears : TeamCapSummary(t, y)
    \/ \E r \in RookieCalls : CreateRookieContract(r[1], r[2], r[3], r[4], r[5])
    \/ \E v \in VeteranCalls :
          CreateVeteranContract(v[1], v[2], v[3], v[4], v[5], v[6])

Spec == Init /\ [][Next]_vars

\* ContractService.calculate_acceptance_chance called on its own.
AcceptanceChance(player, market_value, offered_salary) ==
    LET acceptance == calculate_acceptance_chance(contracts, player, market_value,
                                                  offered_salary)
        tag == [NoResult EXCEPT !.op = "acceptanceChance",
                                !.player = player.id,
                                !.market_value = market_value,
                                !.args = <<player.work_ethic, offered_salary>>]
    IN /\ UNCHANGED <<contracts, restructures, bonus_granted, sessions>>
       /\ IF acceptance.fault
          THEN result' = [tag EXCEPT !.outcome = "fault",
                                     !.error = "ZeroDivisionError"]
          ELSE result' = [tag EXCEPT !.outcome = "success",
                                     !.chance = acceptance.chance]

ChanceNext ==
    \E p \in KnownPlayers, w \in WorkEthics, m \in MarketValues,
       o \in OfferedSalaries :
       AcceptanceChance([PlayerRow(p) EXCEPT !.work_ethic = w], m, o)

\* The acceptance chance over its arguments, on the empty ledger and on the
\* ledger in which player 1 is under contract with his own team.
ChanceSpec == Init /\ [][ChanceNext]_vars

(* ------------------------------------------------------------- endpoints *)

\* The body of the try block of a POST endpoint: the exception that leaves
\* it, "" when it returns.  An exception of the service call passes through;
\* a result with an "error" key makes the endpoint raise HTTPException(400)
\* inside the try block.
RaisedInTry(res) ==
    IF res.outcome = "fault" THEN res.error
    ELSE IF res.outcome = "error" THEN "HTTPException(400)"
    ELSE ""

\* The status of the response: "except Exception" catches whatever the try
\* block raises, HTTPException included, and raises HTTPException(500).
EndpointStatus(res) == IF RaisedInTry(res) # "" THEN 500 ELSE 200

(* ------------------------------------------------- interleaved requests *)

\* The endpoints are plain def functions, which the server runs on worker
\* threads: requests overlap, each in its own session.  A call that reaches
\* db.commit() is two steps here: Begin runs the method up to the commit
\* against the committed table (queries, checks, changes to the session's
\* objects), Commit is the transaction that db.commit() flushes and commits.
\* The calls that the interleavings are made of: accepted extensions, and
\* restructures and releases that pass their checks.
ConcurrentRequests ==
    {<<1, 1, 5000000, 3, 0>>,
     <<2, 1, 5000000, 3, 3000000>>}

ConcurrentAmounts == {2000000, 5000000}

\* Variant of WriteChanged: the flush stops after the signing bonus.
WriteChangedBonusOnly(row, loaded, obj) ==
    [row EXCEPT !.signing_bonus = obj.signing_bonus]

\* The UPDATE that the flush emits for a loaded object: it names the columns
\* whose value differs from the loaded one and leaves the others as they are
\* in the table.
WriteChanged(row, loaded, obj) ==
    [row EXCEPT
       !.is_active = IF obj.is_active # loaded.is_active THEN obj.is_active ELSE @,
       !.signing_bonus = IF obj.signing_bonus # loaded.signing_bonus
                         THEN obj.signing_bonus ELSE @,
       !.salary = [i \in 1..5 |-> IF obj.salary[i] # loaded.salary[i]
                                  THEN obj.salary[i] ELSE @[i]],
       !.cap_hit = [i \in 1..5 |-> IF obj.cap_hit[i] # loaded.cap_hit[i]
                                   THEN obj.cap_hit[i] ELSE @[i]],
       !.dead_money = [i \in 1..5 |-> IF obj.dead_money[i] # loaded.dead_money[i]
                                      THEN obj.dead_money[i] ELSE @[i]]]

\* negotiate_contract_extension, lines 32-68, for an offer that is accepted.
BeginExtension(s, player_id, team_id, base_salary, years, signing_bonus) ==
    LET existing == get_player_contract(contracts, player_id)
        made == create_veteran_contract(player_id, team_id, base_salary, years,
                                        signing_bonus, 0)
    IN /\ sessions[s].pc = "idle"
       /\ ExtensionRefusal(contracts, player_id, team_id) = ""
       /\ sessions' = [sessions EXCEPT ![s] =
             [IdleSession EXCEPT
                !.pc = "pending", !.op = "negotiateExtension",
                !.existing = existing, !.amount = signing_bonus,
                !.obj = made.c,
                !.res = [NoResult EXCEPT !.op = "negotiateExtension",
                                         !.outcome = "success",
                                         !.player = player_id, !.team = team_id,
                                         !.total_value = made.c.total_value,
                                         !.cap_hit = made.c.cap_hit[1]]]]
       /\ UNCHANGED <<contracts, result, restructures, bonus_granted>>

\* negotiate_contract_extension, lines 71-80: the commit and the answer.
CommitExtension(s) ==
    /\ sessions[s].pc = "pending"
    /\ sessions[s].op = "negotiateExtension"
    /\ Len(contracts) < MaxContracts
    /\ contracts' = ExtensionCommit(contracts, sessions[s].existing, sessions[s].obj)
    /\ bonus_granted' = Append(bonus_granted, sessions[s].amount)
    /\ result' = [sessions[s].res EXCEPT !.cid = Len(contracts) + 1]
    /\ sessions' = [sessions EXCEPT ![s] = IdleSession]
    /\ UNCHANGED restructures

\* ContractService.restructure_contract up to line 155, for a restructure
\* that succeeds.
BeginRestructure(s, contract_id, restructure_amount) ==
    /\ sessions[s].pc = "idle"
    /\ contract_id \in ContractIds
    /\ contracts[contract_id].is_active
    /\ LET r == SalaryCapRestructure(contracts[contract_id], restructure_amount)
       IN /\ r.res.outcome = "success"
          /\ sessions' = [sessions EXCEPT ![s] =
                [IdleSession EXCEPT
                   !.pc = "pending", !.op = "restructureContract",
                   !.cid = contract_id, !.amount = restructure_amount,
                   !.loaded = contracts[contract_id], !.obj = r.c,
                   !.res = [r.res EXCEPT !.cid = contract_id,
                                         !.amount = restructure_amount]]]
    /\ UNCHANGED <<contracts, result, restructures, bonus_granted>>

\* ContractService.restructure_contract, lines 156-158.
CommitRestructure(s) ==
    /\ sessions[s].pc = "pending"
    /\ sessions[s].op = "restructureContract"
    /\ restructures < MaxRestructures
    /\ contracts' = [contracts EXCEPT ![sessions[s].cid] =
                        WriteChanged(@, sessions[s].loaded, sessions[s].obj)]
    /\ bonus_granted' = [bonus_granted EXCEPT ![sessions[s].cid] = @ + sessions[s].amount]
    /\ restructures' = restructures + 1
    /\ result' = sessions[s].res
    /\ sessions' = [sessions EXCEPT ![s] = IdleSession]

\* ContractService.release_player up to line 169, for a release that
\* succeeds.
BeginRelease(s, contract_id, post_june_1) ==
    /\ sessions[s].pc = "idle"
    /\ contract_id \in ContractIds
    /\ LET r == SalaryCapRelease(contracts[contract_id], post_june_1)
       IN /\ r.res.outcome = "success"
          /\ sessions' = [sessions EXCEPT ![s] =
                [IdleSession EXCEPT
                   !.pc = "pending", !.op = "releasePlayer",
                   !.cid = contract_id,
                   !.loaded = contracts[contract_id], !.obj = r.c,
                   !.res = [r.res EXCEPT !.cid = contract_id,
                                         !.post_june_1 = post_june_1]]]
    /\ UNCHANGED <<contracts, result, restructures, bonus_granted>>

\* ContractService.release_player, lines 170-172.
CommitRelease(s) ==
    /\ sessions[s].pc = "pending"
    /\ sessions[s].op = "releasePlayer"
    /\ contracts' = [contracts EXCEPT ![sessions[s].cid] =
                        WriteChanged(@, sessions[s].loaded, sessions[s].obj)]
    /\ result' = sessions[s].res
    /\ sessions' = [sessions EXCEPT ![s] = IdleSession]
    /\ UNCHANGED <<restructures, bonus_granted>>

ConcurrentNext ==
    \/ \E s \in Sessions, r \in ConcurrentRequests :
          BeginExtension(s, r[1], r[2], r[3], r[4], r[5])
    \/ \E s \in Sessions : CommitExtension(s)
    \/ \E s \in Sessions, c \in ContractIds, amt \in ConcurrentAmounts :
          BeginRestructure(s, c, amt)
    \/ \E s \in Sessions : CommitRestructure(s)
    \/ \E s \in Sessions, c \in ContractIds : BeginRelease(s, c, TRUE)
    \/ \E s \in Sessions : CommitRelease(s)
    \/ \E p \in KnownPlayers : FranchiseTag(p, 1)

ConcurrentSpec == Init /\ [][ConcurrentNext]_vars

(* ---------------------------------------------------------------- claims *)

ActiveOf(cs, p) == {i \in 1..Len(cs) : cs[i].player_id = p /\ cs[i].is_active}

RestructureSucceeded ==
    /\ result'.op = "restructureContract"
    /\ result'.outcome = "success"

ReleaseSucceeded ==
    /\ result'.op = "releasePlayer"
    /\ result'.outcome = "success"

\* The rows the step has added to the table.
NewRows == (Len(contracts) + 1)..Len(contracts')

\* C1: in every reachable state each player has at most one contract with
\* is_active = true.
C1_SingleActiveContract ==
    \A p \in PlayerIds : Cardinality(ActiveOf(contracts, p)) <= 1

\* C1 witness: an accepted extension has replaced the player's contract: the
\* old row is inactive and the new row is the player's only active one.
C1_Witness ==
    /\ result.op = "negotiateExtension"
    /\ result.outcome = "success"
    /\ \E i \in ContractIds :
          /\ i # result.cid
          /\ contracts[i].player_id = result.player
          /\ contracts[i].dead_money = Zero5
          /\ ~contracts[i].is_active
          /\ contracts[result.cid].is_active

\* C2: a contract that a step has created or has successfully restructured,
\* active and with years = n in 1..5, has cap_hit[y] = salary[y] +
\* floor(signing_bonus / n) for every y in 1..n.
C2_CapHitsFollowSalaries ==
    [][\A i \in 1..Len(contracts') :
          LET c == contracts'[i]
          IN (/\ i \in NewRows \/ (RestructureSucceeded /\ result'.cid = i)
              /\ c.is_active
              /\ c.years \in 1..5)
             => \A y \in 1..c.years :
                   c.cap_hit[y] = c.salary[y] + FloorDiv(c.signing_bonus, c.years)]_vars

\* C3: a successful restructure returns cap_savings = (year-1 salary before
\* + floor(signing bonus before / years)) - (year-1 salary after +
\* floor(signing bonus after / years)).
C3_SavingsFromSnapshot ==
    [][RestructureSucceeded =>
          LET before == contracts[result'.cid]
              after == contracts'[result'.cid]
          IN result'.cap_savings =
                (before.salary[1] + FloorDiv(before.signing_bonus, before.years))
                - (after.salary[1] + FloorDiv(after.signing_bonus, after.years))]_vars

\* C4: a successful restructure by amt moves amt from salary[1] to
\* signing_bonus, so salary[1] + signing_bonus is what it was before the call.
C4_RestructureConserves ==
    [][RestructureSucceeded =>
          LET before == contracts[result'.cid]
              after == contracts'[result'.cid]
          IN /\ after.signing_bonus = before.signing_bonus + result'.amount
             /\ after.salary[1] = before.salary[1] - result'.amount
             /\ after.salary[1] + after.signing_bonus
                   = before.salary[1] + before.signing_bonus]_vars

\* C4 witness: a second successive restructure has succeeded.
C4_Witness ==
    /\ result.op = "restructureContract"
    /\ result.outcome = "success"
    /\ restructures >= 2

\* C5: releasing an active contract with signing bonus B and years r (r # 0
\* when post_june_1) succeeds and stamps dead_money[1] = B, dead_money[2] = 0
\* without post_june_1, and dead_money[1] = floor(B / r), dead_money[2] =
\* B - dead_money[1] with it; the two add up to B.
C5_DeadMoneySplit ==
    [][(/\ result'.op = "releasePlayer"
        /\ result'.cid \in ContractIds
        /\ contracts[result'.cid].is_active
        /\ (result'.post_june_1 => contracts[result'.cid].years # 0))
       => LET before == contracts[result'.cid]
              after == contracts'[result'.cid]
              B == before.signing_bonus
          IN /\ result'.outcome = "success"
             /\ after.dead_money[1] =
                   (IF result'.post_june_1 THEN FloorDiv(B, before.years) ELSE B)
             /\ after.dead_money[2] =
                   (IF result'.post_june_1 THEN B - after.dead_money[1] ELSE 0)
             /\ after.dead_money[1] + after.dead_money[2] = B]_vars

\* C5 witness: a post-June-1 release of a 3-year contract whose bonus of
\* 2,000,000 does not divide evenly.
C5_Witness ==
    /\ result.op = "releasePlayer"
    /\ result.outcome = "success"
    /\ result.post_june_1
    /\ contracts[result.cid].years = 3
    /\ contracts[result.cid].dead_money[1] = 666666
    /\ contracts[result.cid].dead_money[2] = 1333334

\* C6: an inactive contract stays as it is in every step (is_active stays
\* false, no field changes), and a restructure or release called on it
\* returns the NotActive error.
C6_InactiveIsTerminal ==
    [][\A i \in ContractIds :
          ~contracts[i].is_active =>
             /\ contracts'[i] = contracts[i]
             /\ (/\ result'.op \in {"restructureContract", "releasePlayer"}
                 /\ result'.cid = i)
                => (result'.outcome = "error" /\ result'.error = "NotActive")]_vars

\* C6 witness: a release or restructure was refused on an inactive contract
\* that carries dead money.
C6_Witness ==
    /\ result.op \in {"restructureContract", "releasePlayer"}
    /\ result.error = "NotActive"
    /\ result.cid \in ContractIds
    /\ ~contracts[result.cid].is_active
    /\ contracts[result.cid].dead_money[1] > 0

\* The rows of a team by activity, and the sum of a per-year field over rows.
TeamRows(team_id, active) ==
    {i \in ContractIds : contracts[i].team_id = team_id /\ contracts[i].is_active = active}

\* C7: a team cap summary reports cap_used = the sum of cap_hit[k] over all
\* active contracts of the team, k = year - current_year + 1 (zero for k
\* outside 1..5), dead_money = the sum of dead_money[k] over its inactive
\* contracts, and cap_space = base cap - cap_used - dead_money.  The cap hit
\* of a contract is taken as stored or as derived when the call reads it.
C7_SummaryReconciles ==
    result.op = "teamCapSummary" =>
       LET k == result.year - current_year + 1
           act == TeamRows(result.team, TRUE)
           gone == TeamRows(result.team, FALSE)
           stored == SumOver([i \in act |-> YearField(contracts[i].cap_hit, k)], act)
           read == SumOver([i \in act |->
                               YearField(DerivedOnRead(contracts[i]).cap_hit, k)], act)
           dead == SumOver([i \in gone |-> YearField(contracts[i].dead_money, k)], gone)
       IN /\ result.cap_used \in {stored, read}
          /\ result.dead_money = dead
          /\ result.cap_space = base_cap - result.cap_used - result.dead_money

\* C8: an active contract has no dead money, and a dead-money field leaves
\* zero only in a release step that clears is_active on that contract.
C8_DeadMoneyOnlyAtRelease ==
    /\ [](\A i \in ContractIds :
             contracts[i].is_active => contracts[i].dead_money = Zero5)
    /\ [][/\ \A i \in NewRows : contracts'[i].dead_money = Zero5
          /\ \A i \in ContractIds, y \in 1..5 :
                (contracts[i].dead_money[y] = 0 /\ contracts'[i].dead_money[y] # 0)
                => /\ ReleaseSucceeded
                   /\ result'.cid = i
                   /\ contracts[i].is_active
                   /\ ~contracts'[i].is_active]_vars

\* C8 witness: a release has stamped dead money while another contract that
\* was restructured is still active.
C8_Witness ==
    /\ result.op = "releasePlayer"
    /\ result.outcome = "success"
    /\ contracts[result.cid].dead_money[1] > 0
    /\ \E i \in ContractIds :
          /\ contracts[i].is_active
          /\ contracts[i].signing_bonus \notin {0, 3000000}

\* C9: every contract a step creates has years in 1..5 and nothing in the
\* year slots after years: salary, cap hit and dead money are 0 there.
C9_NothingBeyondYears ==
    [][\A i \in NewRows :
          LET c == contracts'[i]
          IN /\ c.years \in 1..5
             /\ \A y \in 1..5 :
                   y > c.years =>
                      /\ c.salary[y] = 0
                      /\ c.cap_hit[y] = 0
                      /\ c.dead_money[y] = 0]_vars

\* C10: every contract has guaranteed_money <= total_value.
C10_GuaranteedWithinTotal ==
    \A i \in ContractIds :
       contracts[i].guaranteed_money <= contracts[i].total_value

\* C11: a rejected negotiateExtension returns a non-success outcome that
\* carries the player's market value and the acceptance chance of the offer,
\* and leaves the ledger as it was: no row is added and every row, the
\* player's active contract included, keeps all its fields.
C11_RejectedLeavesLedger ==
    [][(result'.op = "negotiateExtension" /\ result'.outcome = "rejected")
       => /\ contracts' = contracts
          /\ result'.cid = 0
          /\ result'.market_value = calculate_market_value(PlayerRow(result'.player))
          /\ \E r \in Requests :
                /\ r[1] = result'.player
                /\ r[2] = result'.team
                /\ result'.acceptance_chance =
                      AcceptancePercent10(calculate_acceptance_chance(
                          contracts, PlayerRow(r[1]), result'.market_value,
                          r[3]).chance)]_vars

\* C11 witness: the kicker, under an active contract with his own team, has
\* rejected an offer of 5,000,000 against a market value of 43,200,000; the
\* chance was 6.7%.
C11_Witness ==
    /\ result.op = "negotiateExtension"
    /\ result.outcome = "rejected"
    /\ result.market_value = 43200000
    /\ result.acceptance_chance = 67
    /\ \E i \in ContractIds :
          contracts[i].player_id = result.player /\ contracts[i].is_active

\* C12: an accepted negotiateExtension leaves the player's former active
\* contract with the same team inactive, persists exactly one new row, an
\* active contract of the player built as by createVeteranContract(base
\* salary, years, signing bonus), and returns that row's id, its total_value
\* and cap_hit[1] = base_salary + floor(signing_bonus / years).
C12_AcceptedExtension ==
    [][(result'.op = "negotiateExtension" /\ result'.outcome = "success")
       => LET cid == result'.cid
              new == contracts'[cid]
          IN /\ NewRows = {cid}
             /\ \A i \in ActiveOf(contracts, result'.player) :
                   contracts[i].team_id = result'.team => ~contracts'[i].is_active
             /\ ActiveOf(contracts', result'.player) = {cid}
             /\ \E r \in Requests :
                   /\ r[1] = result'.player
                   /\ r[2] = result'.team
                   /\ new = create_veteran_contract(r[1], r[2], r[3], r[4], r[5], 0).c
             /\ result'.total_value = new.total_value
             /\ new.years # 0 =>
                   result'.cap_hit =
                      new.salary[1] + FloorDiv(new.signing_bonus, new.years)]_vars

\* C13: negotiateExtension returns NotFound for an unknown player id, and
\* otherwise ConflictingContract when the player has an active contract with
\* a team other than the requested one; whatever the acceptance draw would
\* have been, the ledger is left unchanged.
C13_ExtensionRefusals ==
    [][result'.op = "negotiateExtension"
       => /\ result'.player \notin KnownPlayers
             => /\ result'.outcome = "error"
                /\ result'.error = "NotFound"
                /\ contracts' = contracts
          /\ (/\ result'.player \in KnownPlayers
              /\ \E i \in ActiveOf(contracts, result'.player) :
                    contracts[i].team_id # result'.team)
             => /\ result'.outcome = "error"
                /\ result'.error = "ConflictingContract"
                /\ contracts' = contracts]_vars

\* C13 witness: an offer from team 1 was refused for a player who was
\* released by team 1 and is now under contract with team 2.
C13_Witness ==
    /\ result.op = "negotiateExtension"
    /\ result.error = "ConflictingContract"
    /\ result.team = 1
    /\ \E i, j \in ContractIds :
          /\ contracts[i].player_id = result.player
          /\ contracts[i].team_id = 1
          /\ ~contracts[i].is_active
          /\ contracts[j].player_id = result.player
          /\ contracts[j].team_id = 2
          /\ contracts[j].is_active

\* C14: franchiseTag returns the AlreadyUnderContract error whenever the
\* player has an active contract, with the tagging team or with any other,
\* and then adds no contract and changes none.
C14_TagRefusedUnderContract ==
    [][(/\ result'.op = "franchiseTag"
        /\ ActiveOf(contracts, result'.player) # {})
       => /\ result'.outcome = "error"
          /\ result'.error = "AlreadyUnderContract"
          /\ contracts' = contracts]_vars

\* C14 witness: a tag by team 1 was refused for a player under contract with
\* team 2.
C14_Witness ==
    /\ result.op = "franchiseTag"
    /\ result.error = "AlreadyUnderContract"
    /\ result.team = 1
    /\ \E i \in ActiveOf(contracts, result.player) : contracts[i].team_id = 2

\* C15: franchiseTag on a known player without an active contract succeeds
\* and persists one active contract with contract_type = franchise_tag,
\* years = 1 and salary[1] = total_value = guaranteed_money = cap_hit[1] =
\* 20,000,000 * the position multiplier (1.0 for a position absent from the
\* table); that amount is returned as cap_hit.
C15_TagCreatesContract ==
    [][(/\ result'.op = "franchiseTag"
        /\ result'.player \in KnownPlayers
        /\ ActiveOf(contracts, result'.player) = {})
       => LET tag_amount ==
                 (base_franchise_tag
                    * FranchiseTagMultiplier10(PlayerPosition(result'.player))) \div 10
          IN /\ result'.outcome = "success"
             /\ Len(contracts') = Len(contracts) + 1
             /\ LET new == contracts'[Len(contracts')]
                IN /\ new.player_id = result'.player
                   /\ new.is_active
                   /\ new.contract_type = "franchise_tag"
                   /\ new.years = 1
                   /\ new.salary[1] = tag_amount
                   /\ new.total_value = tag_amount
                   /\ new.guaranteed_money = tag_amount
                   /\ new.cap_hit[1] = tag_amount
             /\ result'.cap_hit = tag_amount]_vars

\* C16: createRookieContract(player, team, round, years), for a round of at
\* least 1 and years in 1..5, returns a contract with base = the year-1 entry
\* of the wage scale for min(round, 7): salary[y] = base and cap_hit[y] =
\* base for every y in 1..years, total_value = base * years and
\* guaranteed_money = base (round 1, four years: total_value 40,000,000 and
\* cap hits of 10,000,000).
C16_RookieContract ==
    (/\ result.op = "createRookieContract"
     /\ result.args[1] >= 1
     /\ result.args[3] \in 1..5)
    => LET years == result.args[3]
           base == RookieScaleYear1(Min(result.args[1], 7))
       IN /\ result.outcome = "success"
          /\ result.contract.years = years
          /\ result.contract.total_value = base * years
          /\ result.contract.guaranteed_money = base
          /\ \A y \in 1..years :
                /\ result.contract.salary[y] = base
                /\ result.contract.cap_hit[y] = base

\* C17: createVeteranContract(base, years, signing_bonus, roster_bonus), for
\* years in 1..5, returns a contract with salary[1] = base, salary[2] = base
\* + 5%, salary[3] = base + 10%, salary[4] = base + 15% only if years > 3,
\* salary[5] = base + 20% only if years > 4, total_value = base * years +
\* signing_bonus + roster_bonus, guaranteed_money = signing_bonus and
\* cap_hit[y] = salary[y] + floor(signing_bonus / years) for y in 1..years.
C17_VeteranContract ==
    (/\ result.op = "createVeteranContract"
     /\ result.args[2] \in 1..5)
    => LET base == result.args[1]
           years == result.args[2]
           signing_bonus == result.args[3]
           roster_bonus == result.args[4]
           c == result.contract
       IN /\ result.outcome = "success"
          /\ c.salary[1] = base
          /\ c.salary[2] = base + (base * 5) \div 100
          /\ c.salary[3] = base + (base * 10) \div 100
          /\ c.salary[4] = (IF years > 3 THEN base + (base * 15) \div 100 ELSE 0)
          /\ c.salary[5] = (IF years > 4 THEN base + (base * 20) \div 100 ELSE 0)
          /\ c.total_value = base * years + signing_bonus + roster_bonus
          /\ c.guaranteed_money = signing_bonus
          /\ \A y \in 1..years :
                c.cap_hit[y] = c.salary[y] + FloorDiv(signing_bonus, years)

\* C18: restructureContract returns NotFound for an unknown contract id,
\* NotActive for an inactive contract and ExceedsSalary when the amount is
\* greater than salary[1]; in each of these cases the committed ledger keeps
\* every field of every contract.
C18_RestructureRefusals ==
    [][result'.op = "restructureContract"
       => LET cid == result'.cid
          IN /\ cid \notin ContractIds
                => /\ result'.outcome = "error"
                   /\ result'.error = "NotFound"
                   /\ UNCHANGED <<contracts, restructures>>
             /\ (cid \in ContractIds /\ ~contracts[cid].is_active)
                => /\ result'.outcome = "error"
                   /\ result'.error = "NotActive"
                   /\ UNCHANGED <<contracts, restructures>>
             /\ (/\ cid \in ContractIds
                 /\ contracts[cid].is_active
                 /\ result'.amount > contracts[cid].salary[1])
                => /\ result'.outcome = "error"
                   /\ result'.error = "ExceedsSalary"
                   /\ UNCHANGED <<contracts, restructures>>]_vars

\* C18 witness: after a restructure by 2,000,000 a further restructure by
\* 5,000,000 was refused: the contract keeps salary[1] = 3,000,000.
C18_Witness ==
    /\ result.op = "restructureContract"
    /\ result.error = "ExceedsSalary"
    /\ result.amount = 5000000
    /\ restructures >= 1
    /\ contracts[result.cid].is_active
    /\ contracts[result.cid].salary[1] = 3000000

\* C19: on a contract with years = 0 the cap-hit derivation (run when the
\* contract is created), restructureContract and releasePlayer, with or
\* without post_june_1, each end in the InvalidContractTerms error: none
\* raises a divide-by-zero fault and none succeeds with a proration of zero.
C19_ZeroYearsRefused ==
    [][/\ (/\ result'.op \in {"restructureContract", "releasePlayer"}
           /\ result'.cid \in ContractIds
           /\ contracts[result'.cid].is_active
           /\ contracts[result'.cid].years = 0
           /\ (result'.op = "restructureContract"
                  => result'.amount <= contracts[result'.cid].salary[1]))
          => (result'.outcome = "error" /\ result'.error = "InvalidContractTerms")
       /\ (result'.op = "createVeteranContract" /\ result'.args[2] = 0)
          => (result'.outcome = "error" /\ result'.error = "InvalidContractTerms")]_vars

\* C20: deriveCapHits is idempotent: on any contract, a second call with
\* salaries, signing bonus and years unchanged leaves every cap_hit[y] at the
\* value the first call left and returns what the first call returned.
C20_DeriveIdempotent ==
    \A c \in {contracts[i] : i \in ContractIds} \cup {result.contract} :
       \A unset \in {{}, RookieUnset} :
          LET first == calculate_contract_cap_hits(c, unset)
              second == calculate_contract_cap_hits(first.c, unset)
          IN /\ second.fault = first.fault
             /\ second.c = first.c
             /\ second.cap_hits = first.cap_hits

\* C20 witness: a team cap summary has read an active contract of the team
\* whose cap hits were never stored; the derivation gives it cap hits.
C20_Witness ==
    /\ result.op = "teamCapSummary"
    /\ \E i \in TeamRows(result.team, TRUE) :
          LET first == calculate_contract_cap_hits(contracts[i], {})
          IN /\ contracts[i].cap_hit[1] = 0
             /\ first.c.cap_hit[1] > 0
             /\ first.c # contracts[i]
             /\ DOMAIN first.cap_hits # {}

\* C21: for every player with work_ethic in 0..100, every market_value >= 0
\* and every offered_salary >= 0, acceptanceChance does not fault, also for a
\* market value of 0, and returns p with 0.05 <= p <= 0.95.
C21_ChanceWithinBounds ==
    (/\ result.op = "acceptanceChance"
     /\ result.args[1] \in 0..100
     /\ result.market_value >= 0
     /\ result.args[2] >= 0)
    => /\ result.outcome = "success"
       /\ result.chance >= 50000
       /\ result.chance <= 950000

\* C21 witness: a market value of 0 met by an offer of 0 (no division), and
\* the chance of 0.72 of a loyal player of work ethic 100 is in reach.
C21_Witness ==
    /\ result.op = "acceptanceChance"
    /\ result.outcome = "success"
    /\ result.market_value = 0
    /\ result.args = <<100, 0>>
    /\ result.chance = 720000

\* C22: a successful releasePlayer clears is_active and returns cap_savings =
\* the contract's cap_hit[1] before the release minus dead_money[1], together
\* with the two dead-money amounts it has stamped.
C22_ReleaseSavings ==
    [][ReleaseSucceeded
       => LET before == contracts[result'.cid]
              after == contracts'[result'.cid]
          IN /\ before.is_active
             /\ ~after.is_active
             /\ result'.cap_savings = before.cap_hit[1] - after.dead_money[1]
             /\ result'.dead_money_current = after.dead_money[1]
             /\ result'.dead_money_next = after.dead_money[2]]_vars

\* C22 witness: a post-June-1 release of a contract whose stored cap hit is
\* not the one its restructured salary and bonus would give.
C22_Witness ==
    /\ result.op = "releasePlayer"
    /\ result.outcome = "success"
    /\ result.post_june_1
    /\ result.dead_money_next > 0
    /\ LET c == contracts[result.cid]
       IN /\ c.years > 0
          /\ c.cap_hit[1] # c.salary[1] + FloorDiv(c.signing_bonus, c.years)
          /\ result.cap_savings = c.cap_hit[1] - c.dead_money[1]

\* C23: the committed ledger changes only by whole operations.  A step that
\* changes it is the commit of one session and carries everything that
\* session's operation writes: an accepted extension adds the new contract
\* and deactivates the old one in the same step, a restructure writes the
\* raised signing_bonus together with the lowered salary[1] and the cap hits
\* it derived, a release clears is_active together with both dead-money
\* stamps; what a session has changed on its objects before its commit is
\* not in the ledger.
C23_CommitsAreWhole ==
    [][contracts' # contracts
       => \E s \in Sessions :
             LET w == sessions[s]
             IN /\ w.pc = "pending"
                /\ sessions'[s].pc = "idle"
                /\ w.op = "negotiateExtension"
                   => /\ Len(contracts') = Len(contracts) + 1
                      /\ contracts'[Len(contracts')] = w.obj
                      /\ w.existing # 0 => ~contracts'[w.existing].is_active
                      /\ \A i \in ContractIds \ {w.existing} :
                            contracts'[i] = contracts[i]
                /\ w.op = "restructureContract"
                   => /\ contracts'[w.cid].signing_bonus = w.obj.signing_bonus
                      /\ contracts'[w.cid].salary[1] = w.obj.salary[1]
                      /\ \A y \in 1..5 :
                            w.obj.cap_hit[y] # w.loaded.cap_hit[y]
                            => contracts'[w.cid].cap_hit[y] = w.obj.cap_hit[y]
                      /\ Len(contracts') = Len(contracts)
                      /\ \A i \in ContractIds \ {w.cid} : contracts'[i] = contracts[i]
                /\ w.op = "releasePlayer"
                   => /\ ~contracts'[w.cid].is_active
                      /\ contracts'[w.cid].dead_money[1] = w.obj.dead_money[1]
                      /\ contracts'[w.cid].dead_money[2] = w.obj.dead_money[2]
                      /\ Len(contracts') = Len(contracts)
                      /\ \A i \in ContractIds \ {w.cid} : contracts'[i] = contracts[i]]_vars

\* C23 witness: a restructure was committed while the other session, which
\* has raised the bonus of the same contract on its own object, has yet to
\* commit: the ledger shows the first restructure whole and nothing of the
\* second.
C23_Witness ==
    /\ result.op = "restructureContract"
    /\ result.outcome = "success"
    /\ \E s \in Sessions :
          /\ sessions[s].pc = "pending"
          /\ sessions[s].op = "restructureContract"
          /\ sessions[s].cid = result.cid
          /\ sessions[s].amount # result.amount
          /\ contracts[result.cid].signing_bonus
                = sessions[s].loaded.signing_bonus + result.amount
          /\ contracts[result.cid].salary[1]
                = sessions[s].loaded.salary[1] - result.amount

\* C26: no player has two active contracts in the committed ledger, whatever
\* the interleaving of the sessions: also when two calls for a player without
\* an active contract both pass the existing-contract check before either
\* commits.
C26_SingleActiveInterleaved ==
    \A i, j \in ContractIds :
       (/\ contracts[i].player_id = contracts[j].player_id
        /\ contracts[i].is_active
        /\ contracts[j].is_active)
       => i = j

\* C24: at the restructure, release, franchise-tag and extend endpoints a
\* business-rule error (NotFound, NotActive, ExceedsSalary,
\* AlreadyUnderContract, ConflictingContract) is answered with a status other
\* than the one that answers an exception raised inside the service.
C24_ErrorsDistinctFromFaults ==
    (/\ result.op \in {"restructureContract", "releasePlayer", "franchiseTag",
                       "negotiateExtension"}
     /\ result.outcome = "error")
    => EndpointStatus(result) # EndpointStatus(FaultResult(result.op, "Exception"))

\* C25: teamCapSummary leaves every field of every contract it goes through
\* as it was before the call, the cap_hit fields of active contracts whose
\* cap_hit[1] is still 0 included.
C25_SummaryLeavesContracts ==
    [][result'.op = "teamCapSummary"
         => \A i \in DOMAIN SummaryObjects(contracts, result'.team) :
               SummaryObjects(contracts, result'.team)[i] = contracts[i]]_vars

\* C27: a restructureContract call with any integer amount on an active
\* contract with salary[1] >= 0 and signing_bonus >= 0 either is turned down
\* and changes nothing, or leaves salary[1] >= 0, signing_bonus >= 0 and
\* signing_bonus not smaller than it was.
C27_RestructureKeepsSigns ==
    [][(/\ result'.op = "restructureContract"
        /\ result'.cid \in ContractIds
        /\ contracts[result'.cid].is_active
        /\ contracts[result'.cid].salary[1] >= 0
        /\ contracts[result'.cid].signing_bonus >= 0)
       => \/ /\ result'.outcome # "success"
             /\ contracts' = contracts
          \/ /\ contracts'[result'.cid].salary[1] >= 0
             /\ contracts'[result'.cid].signing_bonus >= 0
             /\ contracts'[result'.cid].signing_bonus
                   >= contracts[result'.cid].signing_bonus]_vars

\* C28: for an active contract with cap_hit[1] > 0, the cap_savings of a
\* successful releasePlayer is the cap_space of the team's summary for the
\* current year after the call minus the one before it.
C28_SavingsAreCapSpaceGain ==
    [][(/\ ReleaseSucceeded
        /\ contracts[result'.cid].cap_hit[1] > 0)
       => result'.cap_savings =
             calculate_team_salary_cap(contracts', contracts[result'.cid].team_id,
                                       current_year).cap_space
             - calculate_team_salary_cap(contracts, contracts[result'.cid].team_id,
                                         current_year).cap_space]_vars

\* C29: when a contract created with signing bonus B0 and restructured with
\* the amounts a1..ak is released, dead_money[1] + dead_money[2] of the
\* released contract is B0 + a1 + ... + ak and dead_money[3..5] stay 0.
C29_DeadMoneyIsBonusGranted ==
    [][ReleaseSucceeded
       => LET after == contracts'[result'.cid]
          IN /\ after.dead_money[1] + after.dead_money[2] = bonus_granted[result'.cid]
             /\ \A k \in 3..5 : after.dead_money[k] = 0]_vars

\* C29 witness: the only contract of the ledger has been restructured and
\* then released after June 1, and its dead money, spread over two years,
\* adds up to the bonus it was granted.
C29_Witness ==
    /\ result.op = "releasePlayer"
    /\ result.outcome = "success"
    /\ result.post_june_1
    /\ Len(contracts) = 1
    /\ restructures >= 1
    /\ contracts[1].dead_money[1] > 0
    /\ contracts[1].dead_money[2] > 0
    /\ contracts[1].dead_money[1] + contracts[1].dead_money[2] = bonus_granted[1]

\* C30: a successful restructureContract on a contract changes only its
\* signing_bonus, its salary[1] and its cap_hit fields; its other fields and
\* every other contract stay as they were, and no row is added.
C30_RestructureFrame ==
    [][RestructureSucceeded
       => /\ Len(contracts') = Len(contracts)
          /\ \A i \in ContractIds \ {result'.cid} : contracts'[i] = contracts[i]
          /\ [contracts'[result'.cid]
                 EXCEPT !.signing_bonus = contracts[result'.cid].signing_bonus,
                        !.salary[1] = contracts[result'.cid].salary[1],
                        !.cap_hit = contracts[result'.cid].cap_hit]
                = contracts[result'.cid]]_vars

\* C30 witness: a restructure has succeeded on one contract while the ledger
\* holds another one, and the restructured row carries the converted amount.
C30_Witness ==
    /\ result.op = "restructureContract"
    /\ result.outcome = "success"
    /\ result.amount > 0
    /\ Len(contracts) = 2
    /\ contracts[result.cid].is_active
    /\ contracts[result.cid].cap_hit[1] = result.new_cap_hit
    /\ bonus_granted[result.cid] = contracts[result.cid].signing_bonus

====
